---- MODULE Spec2Model ----
(***************************************************************************)
(* Bus management API (Express + express-session + Mongoose).              *)
(*                                                                         *)
(* The repository holds two server programs: src/server.js and an older    *)
(* variant with Swagger annotations and a /logout route                    *)
(* (src/unnamed/part_001).  The variable `app` says which one is running.  *)
(*                                                                         *)
(* A request handler runs until its first `await` in one step and resumes  *)
(* in a later step, so requests of several clients interleave at the       *)
(* store calls.  Schema casting and validation read no stored state; they  *)
(* are evaluated in the step that issues the request.  The document store  *)
(* and the session store are assumed to be reachable (no connection        *)
(* failures).                                                              *)
(***************************************************************************)
EXTENDS Integers, Sequences, FiniteSets, TLC

VARIABLES
    app,        \* which server program is running
    users,      \* User collection: sequence of documents, _id = position
    buses,      \* Bus collection: set of documents
    nextBusId,  \* next _id the store hands out for a Bus document
    session,    \* session store entry behind each client's cookie
    inflight,   \* requests suspended at an await
    ev,         \* what the latest step did (request issued / response sent)
    loggedOut,  \* history: "no", or "admin"/"other": the session the latest Logout ended
    regSeen,    \* history: per username, a Register request has been answered
    regOk       \* history: per username, Register requests answered 201 (0, 1, many)

vars == <<app, users, buses, nextBusId, session, inflight, ev, loggedOut, regSeen, regOk>>

-----------------------------------------------------------------------------
(* Bounds *)

MaxBusId == 2       \* the store hands out at most this many Bus ids
MaxInflight == 2    \* at most this many requests are suspended at once
MaxSeats == 50      \* numeric strings are parsed within 0..MaxSeats

Apps == {"server.js", "part_001"}
Clients == {"c1", "c2"}
Slots == 1..MaxInflight

-----------------------------------------------------------------------------
(* JSON values of a request body *)

Undef == [t |-> "undef", s |-> "", n |-> 0]      \* key absent (or null)
Str(x) == [t |-> "str", s |-> x, n |-> 0]
Num(x) == [t |-> "num", s |-> "", n |-> x]
CastError == [t |-> "casterror", s |-> "", n |-> 0]
Keep == [t |-> "keep", s |-> "", n |-> 0]        \* path not part of a $set

\* JavaScript truthiness, as used by `!x` and `x || y`
Truthy(v) ==
    CASE v.t = "undef" -> FALSE
      [] v.t = "str" -> v.s # ""
      [] v.t = "num" -> v.n # 0
      [] OTHER -> TRUE

-----------------------------------------------------------------------------
(* busSchema / userSchema: casting, defaults and validators *)

Fields == {"busNumber", "seats", "route", "departurePoint", "destinationPoint", "departureTime"}

\* busSchema: the declared type of each path
FieldType(f) == IF f = "seats" THEN "Number" ELSE "String"

\* Number("<digits>") within the modelled range; -1 stands for NaN
ParseNumber(s) ==
    IF \E k \in 0..MaxSeats : ToString(k) = s
    THEN CHOOSE k \in 0..MaxSeats : ToString(k) = s
    ELSE -1

\* type: String -- a number is stored as its decimal text
CastString(v) ==
    CASE v.t = "num" -> Str(ToString(v.n))
      [] OTHER -> v

\* type: Number -- '' becomes null, a numeric string its number, other text fails
CastNumber(v) ==
    CASE v.t = "str" /\ v.s = "" -> Undef
      [] v.t = "str" /\ ParseNumber(v.s) >= 0 -> Num(ParseNumber(v.s))
      [] v.t = "str" -> CastError
      [] OTHER -> v

Cast(f, v) == IF FieldType(f) = "Number" THEN CastNumber(v) ELSE CastString(v)

\* required: true -- a String path needs a non-empty string, a Number path a number
RequiredOk(f, v) ==
    IF FieldType(f) = "Number" THEN v.t = "num" ELSE v.t = "str" /\ v.s # ""

\* new Bus({...}): every path cast to its schema type
NewBus(body) == [f \in Fields |-> Cast(f, body[f])]

\* newBus.save() validation: no cast failure and every required path present
BusValid(doc) == \A f \in Fields : doc[f] # CastError /\ RequiredOk(f, doc[f])

\* the field check of POST /api/buses: server.js tests all six for truthiness,
\* the annotated variant has no check
CreateFieldsOk(a, body) ==
    IF a = "server.js" THEN \A f \in Fields : Truthy(body[f]) ELSE TRUE

\* the update document of findByIdAndUpdate(id, {six keys}): an undefined key is
\* either dropped from the $set or sent as null, depending on the Mongoose
\* release (omitUndefined); a present key is cast to its schema type
UpdateDoc(body, omitUndefined) ==
    [f \in Fields |->
        IF body[f] = Undef
        THEN (IF omitUndefined THEN Keep ELSE Undef)
        ELSE Cast(f, body[f])]

\* casting the update fails on a cast error; server.js passes runValidators: true,
\* which also runs `required` on every path of the $set
UpdateValid(a, doc) ==
    /\ \A f \in Fields : doc[f] # CastError
    /\ a = "server.js" => \A f \in Fields : doc[f] = Keep \/ RequiredOk(f, doc[f])

\* variant: a falsy value (0, '') is skipped as if it had not been sent
ApplySet_SkipFalsy(bus, doc) ==
    [bus EXCEPT !.f = [f \in Fields |->
        IF doc[f] = Keep \/ ~Truthy(doc[f]) THEN bus.f[f] ELSE doc[f]]]

\* $set applied to a stored document
ApplySet(bus, doc) ==
    [bus EXCEPT !.f = [f \in Fields |-> IF doc[f] = Keep THEN bus.f[f] ELSE doc[f]]]

\* userSchema.role: enum ['user', 'admin'], default 'user'
RoleEnum == {"user", "admin"}

\* the role handed to new User(): server.js writes `role || 'user'`
RoleArg(a, role) ==
    IF a = "server.js" THEN (IF Truthy(role) THEN role ELSE Str("user")) ELSE role

\* variant: the schema declares no default
RoleDefault_None(v) == v

\* default: 'user' applies to an undefined path
RoleDefault(v) == IF v = Undef THEN Str("user") ELSE v

\* enum validator of userSchema.role
RoleValid(v) == v.t = "str" /\ v.s \in RoleEnum

-----------------------------------------------------------------------------
(* bcrypt *)

SaltRounds == 10

\* bcrypt.hash(password, 10): a one-way digest bound to the plaintext (the random
\* salt is not modelled); the call throws when the password is not a string
HashOk(pw) == pw.t = "str"
Hash(pw) == [alg |-> "bcrypt", cost |-> SaltRounds, of |-> pw.s]

\* bcrypt.compare(password, hash)
Compare(pw, h) == h.of = pw.s

-----------------------------------------------------------------------------
(* Sessions and the authorization gate *)

NoSession == [userId |-> 0, role |-> ""]

\* authRequired passes when the session carries a userId
authRequired(s) == s.userId # 0

\* variant: the role is not checked
adminRequired_Any(a, s) == TRUE

\* adminRequired passes when the session role is 'admin'
adminRequired(a, s) ==
    IF a = "server.js"
    THEN ~(s.role = "" \/ s.role # "admin")
    ELSE s.role = "admin"

\* variant: the two middlewares are registered in the other order
Gate_AdminFirst(a, s) ==
    IF ~adminRequired(a, s) THEN 403
    ELSE IF ~authRequired(s) THEN 401
    ELSE 0

\* app.<verb>(path, authRequired, adminRequired, handler): 0 = handler reached
Gate(a, s) ==
    IF ~authRequired(s) THEN 401
    ELSE IF ~adminRequired(a, s) THEN 403
    ELSE 0

-----------------------------------------------------------------------------
(* Request inputs *)

Usernames == {"alice", "bob", "carol"}
Passwords == {Undef, Str("p1"), Str("p2")}
Roles == {Undef, Str(""), Str("user"), Str("admin"), Str("root")}

\* the example payload of the API description and a second complete one
Bus12A ==
    [f \in Fields |->
        CASE f = "busNumber" -> Str("12A")
          [] f = "seats" -> Num(40)
          [] f = "route" -> Str("R1")
          [] f = "departurePoint" -> Str("A")
          [] f = "destinationPoint" -> Str("B")
          [] OTHER -> Str("08:00")]

Bus7 ==
    [f \in Fields |->
        CASE f = "busNumber" -> Str("7")
          [] f = "seats" -> Num(50)
          [] f = "route" -> Str("R2")
          [] f = "departurePoint" -> Str("C")
          [] f = "destinationPoint" -> Str("D")
          [] OTHER -> Str("09:30")]

NoBody == [f \in Fields |-> Undef]

Bodies ==
    {Bus12A, Bus7}
    \cup {[Bus12A EXCEPT !["seats"] = v] : v \in {Undef, Num(0), Str("40"), Str("abc")}}
    \cup {[Bus12A EXCEPT !["busNumber"] = v] : v \in {Undef, Str(""), Num(12)}}
    \cup {[Bus12A EXCEPT !["route"] = Undef, !["departureTime"] = Undef]}

BadId == -1     \* a path parameter that is no ObjectId
NoId == 0       \* a well-formed id the store never handed out

-----------------------------------------------------------------------------
(* Requests and events *)

Idle ==
    [op |-> "idle", client |-> "", sess |-> NoSession, id |-> 0, body |-> NoBody,
     username |-> "", password |-> Undef, role |-> Undef, omit |-> FALSE]

\* a request as its suspended handler still reads it: a bus handler keeps the
\* session it was admitted with, the path id and the body; register and login
\* keep the client whose session they will write and the credentials
BusReq(o, c, i, b, om) ==
    [Idle EXCEPT !.op = o, !.sess = session[c], !.id = i, !.body = b, !.omit = om]

AuthReq(o, c, u, pw, r) ==
    [Idle EXCEPT !.op = o, !.client = c, !.username = u, !.password = pw, !.role = r]

\* status 0: the request is suspended at an await and has no response yet
Event(r, c, st, m) ==
    [op |-> r.op, client |-> c, id |-> r.id, username |-> r.username, role |-> r.role,
     status |-> st, msg |-> m]

FreeSlot == CHOOSE k \in Slots : inflight[k] = Idle /\ \A j \in 1..(k-1) : inflight[j] # Idle
HasFree == \E k \in Slots : inflight[k] = Idle

\* c is the client the step is for: the one issuing the request, or the one
\* whose session a resumed register or login writes ("" otherwise)
Suspend(r, c) ==
    /\ HasFree
    /\ inflight' = [inflight EXCEPT ![FreeSlot] = r]
    /\ ev' = Event(r, c, 0, "")

Respond(r, c, st, m) == ev' = Event(r, c, st, m)

\* response texts
Msg(a, key) ==
    IF a = "server.js"
    THEN CASE key = "auth" -> "Autentimine on vajalik"
           [] key = "admin" -> "Juurdepaas keelatud. Vajalik administraatori roll."
           [] key = "exists" -> "Kasutaja on juba olemas"
           [] key = "registered" -> "Kasutaja loodud"
           [] key = "registerError" -> "Viga registreerimisel"
           [] key = "badLogin" -> "Vale kasutajanimi voi parool"
           [] key = "loggedIn" -> "Sisselogimine onnestus"
           [] key = "loginError" -> "Viga sisselogimisel"
           [] key = "fill" -> "Palun taitke koik valjad"
           [] key = "created" -> "Buss on edukalt lisatud"
           [] key = "createError" -> "Serveri viga bussi lisamisel"
           [] key = "updated" -> "Buss on uuendatud"
           [] key = "notFound" -> "Bussi ei leitud"
           [] key = "updateError" -> "Serveri viga bussi muutmisel"
           [] key = "deleted" -> "Buss kustutatud"
           [] key = "deleteError" -> "Viga bussi kustutamisel"
           [] OTHER -> ""
    ELSE CASE key = "auth" -> "Authentication required"
           [] key = "admin" -> "Admin access required"
           [] key = "exists" -> "User already exists"
           [] key = "registered" -> "User registered successfully"
           [] key = "registerError" -> "Error registering user"
           [] key = "badLogin" -> "Invalid username or password"
           [] key = "loggedIn" -> "Login successful"
           [] key = "loginError" -> "Error logging in"
           [] key = "fill" -> ""
           [] key = "created" -> "Bus added successfully"
           [] key = "createError" -> "Error adding bus"
           [] key = "updated" -> "Bus updated successfully"
           [] key = "notFound" -> "Bus not found"
           [] key = "updateError" -> "Error updating bus"
           [] key = "deleted" -> "Bus deleted successfully"
           [] key = "deleteError" -> "Error deleting bus"
           [] key = "loggedOut" -> "Logout successful"
           [] OTHER -> ""

GateMsg(a, g) == IF g = 401 THEN Msg(a, "auth") ELSE Msg(a, "admin")

-----------------------------------------------------------------------------
(* Store queries *)

\* variant: the lookup never matches
FindUser_Miss(us, name) == 0

\* User.findOne({ username }): position of the first match, 0 when there is none
FindUser(us, name) ==
    IF \E i \in 1..Len(us) : us[i].username = name
    THEN CHOOSE i \in 1..Len(us) : us[i].username = name /\ \A j \in 1..(i-1) : us[j].username # name
    ELSE 0

\* variant: the schema declares no unique index
UniqueIndexOk_None(us, name) == TRUE

\* the unique index on username (unique: true) admits the insert
UniqueIndexOk(us, name) == \A i \in 1..Len(us) : us[i].username # name

\* Bus.find()
List == buses

\* variant: the update and the delete act as if the document were there
HasBus_Any(bs, i) == TRUE

\* findById: a document with this _id is stored
HasBus(bs, i) == \E b \in bs : b.id = i

\* findByIdAndUpdate / findByIdAndDelete cast the id to an ObjectId first
IdOk(i) == i # BadId

NotAuth == UNCHANGED <<users, session, loggedOut, regSeen, regOk>>
NotBus == UNCHANGED <<buses, nextBusId>>

-----------------------------------------------------------------------------
(* POST /register *)

NoteRegister(u, st) ==
    /\ regSeen' = [regSeen EXCEPT ![u] = TRUE]
    /\ regOk' = IF st = 201
                THEN [regOk EXCEPT ![u] = IF @ = 0 THEN 1 ELSE 2]
                ELSE regOk

\* up to the first store call that can suspend with the request still undecided:
\* findOne, bcrypt.hash and the validation that save() runs before it inserts
RegisterFindOne(c, u, pw, r) ==
    LET q == AuthReq("register", c, u, pw, r) IN
    /\ NotBus
    /\ UNCHANGED <<app, users, session, loggedOut>>
    /\ IF FindUser(users, u) # 0
       THEN /\ Respond(q, c, 400, Msg(app, "exists"))
            /\ NoteRegister(u, 400)
            /\ UNCHANGED inflight
       ELSE IF ~HashOk(pw) \/ ~RoleValid(RoleDefault(RoleArg(app, r)))
       THEN /\ Respond(q, c, 500, Msg(app, "registerError"))
            /\ NoteRegister(u, 500)
            /\ UNCHANGED inflight
       ELSE /\ Suspend(q, c)
            /\ UNCHANGED <<regSeen, regOk>>

\* the insert of newUser.save() and what follows it
RegisterSave(k) ==
    LET q == inflight[k]
        doc == [username |-> q.username,
                password |-> Hash(q.password),
                role |-> RoleDefault(RoleArg(app, q.role)).s]
    IN
    /\ q.op = "register"
    /\ NotBus
    /\ UNCHANGED app
    /\ inflight' = [inflight EXCEPT ![k] = Idle]
    /\ IF UniqueIndexOk(users, q.username)
       THEN /\ users' = Append(users, doc)
            /\ session' = [session EXCEPT ![q.client] =
                              [userId |-> Len(users) + 1, role |-> doc.role]]
            /\ loggedOut' = [loggedOut EXCEPT ![q.client] = "no"]
            /\ Respond(q, q.client, 201, Msg(app, "registered"))
            /\ NoteRegister(q.username, 201)
       ELSE /\ Respond(q, q.client, 500, Msg(app, "registerError"))
            /\ NoteRegister(q.username, 500)
            /\ UNCHANGED <<users, session, loggedOut>>

-----------------------------------------------------------------------------
(* POST /login *)

\* variant: an unknown username gets a text of its own
LoginFailMsg_Tell(a, found) == IF found THEN Msg(a, "badLogin") ELSE "Unknown user"

\* the text of the 401 answer; found says whether findOne returned a user
LoginFailMsg(a, found) == Msg(a, "badLogin")

LoginFindOne(c, u, pw) ==
    LET q == AuthReq("login", c, u, pw, Undef)
        i == FindUser(users, u)
    IN
    /\ NotBus
    /\ NotAuth
    /\ UNCHANGED app
    /\ IF i = 0
       THEN /\ Respond(q, c, 401, LoginFailMsg(app, FALSE))
            /\ UNCHANGED inflight
       ELSE IF ~HashOk(pw)
       THEN /\ Respond(q, c, 500, Msg(app, "loginError"))
            /\ UNCHANGED inflight
       ELSE /\ HasFree
            /\ inflight' = [inflight EXCEPT ![FreeSlot] = [q EXCEPT !.id = i]]
            /\ ev' = Event(q, c, 0, "")

\* after bcrypt.compare
LoginFinish(k) ==
    LET q == inflight[k]
        user == users[q.id]
    IN
    /\ q.op = "login"
    /\ NotBus
    /\ UNCHANGED <<app, users, regSeen, regOk>>
    /\ inflight' = [inflight EXCEPT ![k] = Idle]
    /\ IF ~Compare(q.password, user.password)
       THEN /\ Respond([q EXCEPT !.id = 0], q.client, 401, LoginFailMsg(app, TRUE))
            /\ UNCHANGED <<session, loggedOut>>
       ELSE /\ session' = [session EXCEPT ![q.client] =
                              [userId |-> q.id, role |-> user.role]]
            /\ loggedOut' = [loggedOut EXCEPT ![q.client] = "no"]
            /\ Respond([q EXCEPT !.id = 0], q.client, 200, Msg(app, "loggedIn"))

-----------------------------------------------------------------------------
(* POST /logout: only the annotated variant has the route *)

HasLogout(a) == a = "part_001"

\* variant: the session is left in the store
Destroy_Keep(s) == s

\* req.session.destroy(): what the store holds for the cookie afterwards
Destroy(s) == NoSession

Logout(c) ==
    LET q == AuthReq("logout", c, "", Undef, Undef) IN
    /\ NotBus
    /\ UNCHANGED <<app, users, inflight, regSeen, regOk>>
    /\ IF HasLogout(app)
       THEN /\ session' = [session EXCEPT ![c] = Destroy(session[c])]
            /\ loggedOut' = [loggedOut EXCEPT ![c] =
                                IF session[c].role = "admin" THEN "admin" ELSE "other"]
            /\ Respond(q, c, 200, Msg(app, "loggedOut"))
       ELSE /\ Respond(q, c, 404, "")
            /\ UNCHANGED <<session, loggedOut>>

-----------------------------------------------------------------------------
(* GET /api/buses *)

ListBuses(c) ==
    /\ NotBus
    /\ NotAuth
    /\ UNCHANGED <<app, inflight>>
    /\ Respond(BusReq("list", c, 0, NoBody, FALSE), c, 200, "")

-----------------------------------------------------------------------------
(* POST /api/buses *)

\* ids the store will still hand out, counting the inserts already under way
IdsLeft ==
    MaxBusId - (nextBusId - 1) - Cardinality({k \in Slots : inflight[k].op = "create"})

CreateBegin(c, body) ==
    LET q == BusReq("create", c, 0, body, FALSE)
        g == Gate(app, session[c])
    IN
    /\ NotBus
    /\ NotAuth
    /\ UNCHANGED app
    /\ IF g # 0
       THEN Respond(q, c, g, GateMsg(app, g)) /\ UNCHANGED inflight
       ELSE IF ~CreateFieldsOk(app, body)
       THEN Respond(q, c, 400, Msg(app, "fill")) /\ UNCHANGED inflight
       ELSE IF ~BusValid(NewBus(body))
       THEN Respond(q, c, 500, Msg(app, "createError")) /\ UNCHANGED inflight
       ELSE IdsLeft > 0 /\ Suspend(q, c)

\* the insert of newBus.save()
CreateSave(k) ==
    LET q == inflight[k] IN
    /\ q.op = "create"
    /\ NotAuth
    /\ UNCHANGED app
    /\ inflight' = [inflight EXCEPT ![k] = Idle]
    /\ buses' = buses \cup {[id |-> nextBusId, f |-> NewBus(q.body)]}
    /\ nextBusId' = nextBusId + 1
    /\ Respond([q EXCEPT !.id = nextBusId], q.client, 201, Msg(app, "created"))

-----------------------------------------------------------------------------
(* PUT /api/buses/:id *)

UpdateBegin(c, i, body, om) ==
    LET q == BusReq("update", c, i, body, om)
        g == Gate(app, session[c])
    IN
    /\ om => \E f \in Fields : body[f] = Undef   \* the choice exists for an undefined key
    /\ NotBus
    /\ NotAuth
    /\ UNCHANGED app
    /\ IF g # 0
       THEN Respond(q, c, g, GateMsg(app, g)) /\ UNCHANGED inflight
       ELSE IF ~IdOk(i) \/ ~UpdateValid(app, UpdateDoc(body, om))
       THEN Respond(q, c, 500, Msg(app, "updateError")) /\ UNCHANGED inflight
       ELSE Suspend(q, c)

\* findOneAndUpdate in the store: no upsert
UpdateApply(k) ==
    LET q == inflight[k] IN
    /\ q.op = "update"
    /\ NotAuth
    /\ UNCHANGED <<app, nextBusId>>
    /\ inflight' = [inflight EXCEPT ![k] = Idle]
    /\ IF HasBus(buses, q.id)
       THEN /\ buses' = {IF b.id = q.id THEN ApplySet(b, UpdateDoc(q.body, q.omit)) ELSE b
                            : b \in buses}
            /\ Respond(q, q.client, 200, Msg(app, "updated"))
       ELSE /\ UNCHANGED buses
            /\ Respond(q, q.client, 404, Msg(app, "notFound"))

-----------------------------------------------------------------------------
(* DELETE /api/buses/:id *)

DeleteBegin(c, i) ==
    LET q == BusReq("delete", c, i, NoBody, FALSE)
        g == Gate(app, session[c])
    IN
    /\ NotBus
    /\ NotAuth
    /\ UNCHANGED app
    /\ IF g # 0
       THEN Respond(q, c, g, GateMsg(app, g)) /\ UNCHANGED inflight
       ELSE IF ~IdOk(i)
       THEN Respond(q, c, 500, Msg(app, "deleteError")) /\ UNCHANGED inflight
       ELSE Suspend(q, c)

\* findOneAndDelete in the store
DeleteApply(k) ==
    LET q == inflight[k] IN
    /\ q.op = "delete"
    /\ NotAuth
    /\ UNCHANGED <<app, nextBusId>>
    /\ inflight' = [inflight EXCEPT ![k] = Idle]
    /\ IF HasBus(buses, q.id)
       THEN /\ buses' = {b \in buses : b.id # q.id}
            /\ Respond(q, q.client, 200, Msg(app, "deleted"))
       ELSE /\ UNCHANGED buses
            /\ Respond(q, q.client, 404, Msg(app, "notFound"))

-----------------------------------------------------------------------------------------------------------------------------------------------------
(* The system *)

\* ids a client can put in a path: one handed out before, malformed or unknown
IssuedIds == 1..(nextBusId - 1)
KnownIds == {BadId, NoId} \cup IssuedIds

AllIdle == \A k \in Slots : inflight[k] = Idle

InitWith(us) ==
    /\ app \in Apps
    /\ users = us
    /\ buses = {}
    /\ nextBusId = 1
    /\ session = [c \in Clients |-> NoSession]
    /\ inflight = [k \in Slots |-> Idle]
    /\ ev = Event(Idle, "", 0, "")
    /\ loggedOut = [c \in Clients |-> "no"]
    /\ regSeen = [u \in Usernames |-> FALSE]
    /\ regOk = [u \in Usernames |-> 0]

RegisterIssue(Cs, Us, Pws, Rs) ==
    \E c \in Cs, u \in Us, pw \in Pws, r \in Rs : RegisterFindOne(c, u, pw, r)

LoginIssue(Cs, Us, Pws) ==
    \/ \E c \in Cs, u \in Us, pw \in Pws : LoginFindOne(c, u, pw)
    \/ \E c \in Cs : Logout(c)

BusIssue(Cs, Bs, Ids) ==
    \/ \E c \in Cs : ListBuses(c)
    \/ \E c \in Cs, body \in Bs : CreateBegin(c, body)
    \/ \E c \in Cs, i \in Ids, body \in Bs, om \in BOOLEAN : UpdateBegin(c, i, body, om)
    \/ \E c \in Cs, i \in Ids : DeleteBegin(c, i)

BusResume ==
    \/ \E k \in Slots : CreateSave(k)
    \/ \E k \in Slots : UpdateApply(k)
    \/ \E k \in Slots : DeleteApply(k)

Admin == [username |-> "alice", password |-> Hash(Str("p1")), role |-> "admin"]
Plain == [username |-> "bob", password |-> Hash(Str("p1")), role |-> "user"]

NarrowBodies == {Bus12A, Bus7}

(* Every operation, with requests of one client overlapping at the store     *)
(* calls.  The User collection already holds an administrator (the store     *)
(* outlives the server process); a second account can be registered.         *)
Init == InitWith(<<Admin>>)
Next ==
    \/ RegisterIssue({"c1"}, {"alice", "carol"}, {Str("p1")}, {Undef})
    \/ LoginIssue({"c1"}, {"alice", "carol"}, {Str("p1")})
    \/ BusIssue({"c1"}, NarrowBodies, IssuedIds)
    \/ \E k \in Slots : RegisterSave(k)
    \/ \E k \in Slots : LoginFinish(k)
    \/ BusResume
Spec == Init /\ [][Next]_vars

(* Registration and login of two clients, one request at a time, from an     *)
(* empty User collection, over every kind of credential.                     *)
InitAuth == InitWith(<<>>)
NextAuth ==
    \/ AllIdle /\ RegisterIssue(Clients, {"alice", "bob"}, Passwords, Roles)
    \/ AllIdle /\ LoginIssue(Clients, {"alice", "bob"}, Passwords)
    \/ \E k \in Slots : RegisterSave(k)
    \/ \E k \in Slots : LoginFinish(k)
SpecAuth == InitAuth /\ [][NextAuth]_vars

(* The bus routes, one request at a time, over every kind of payload; the    *)
(* User collection holds an administrator and a plain user.                  *)
InitBus == InitWith(<<Admin, Plain>>)
NextBus ==
    \/ AllIdle /\ LoginIssue({"c1"}, {"alice", "bob"}, {Str("p1")})
    \/ AllIdle /\ BusIssue({"c1"}, Bodies, KnownIds)
    \/ \E k \in Slots : LoginFinish(k)
    \/ BusResume
SpecBus == InitBus /\ [][NextBus]_vars

-----------------------------------------------------------------------------
(* Properties *)

Mutations == {"create", "update", "delete"}

\* slot k's handler resumes and answers in this step
Resumed(k) == inflight[k] # Idle /\ inflight'[k] = Idle

\* the step issues a request (answered at once or suspended)
Issued == \A k \in Slots : ~Resumed(k)

\* the step issues Create, Update or Delete for client c
MutationBy(c) == Issued /\ ev'.op \in Mutations /\ ev'.client = c

\* C1: once a client's Logout has been answered 200, and until a Login or
\* Register of that client succeeds, every Create, Update or Delete it issues is
\* answered 401 at once and leaves the Bus collection as it was, whatever role
\* the ended session had.
C1_LoggedOutGets401 ==
    [][\A c \in Clients :
          (loggedOut[c] # "no" /\ MutationBy(c))
             => ev'.status = 401 /\ buses' = buses /\ inflight' = inflight]_vars

C1_Witness ==
    /\ loggedOut["c1"] = "admin"
    /\ ev.op \in Mutations /\ ev.status = 401
    /\ buses # {}

\* C2: a Create, Update or Delete issued with a session that carries a userId
\* and the role "user" is answered 403 at once, whatever its body or id, and
\* the Bus collection stays as it was.
C2_UserGets403 ==
    [][\A c \in Clients :
          (session[c].userId # 0 /\ session[c].role = "user" /\ MutationBy(c))
             => ev'.status = 403 /\ buses' = buses /\ inflight' = inflight]_vars

C2_Witness ==
    /\ ev.op = "update" /\ ev.status = 403
    /\ session[ev.client].role = "user"
    /\ buses # {}

\* C10: the Bus collection changes only in the step in which a suspended Create,
\* Update or Delete resumes, and that request was admitted with a session
\* holding a userId and the role "admin"; a mutation issued without a userId is
\* answered 401, one issued with a userId but another role 403, and neither is
\* suspended; no other step (List, Register, Login, Logout) changes the
\* collection.
C10_OnlyAdmittedAdminsWrite ==
    [][/\ buses' # buses =>
            \E k \in Slots :
               /\ Resumed(k)
               /\ inflight[k].op \in Mutations
               /\ inflight[k].sess.userId # 0
               /\ inflight[k].sess.role = "admin"
       /\ \A c \in Clients :
            (MutationBy(c) /\ ~(session[c].userId # 0 /\ session[c].role = "admin"))
               => /\ inflight' = inflight
                  /\ ev'.status = IF session[c].userId = 0 THEN 401 ELSE 403]_vars

C10_Witness ==
    /\ ev.op = "create" /\ ev.status = 201
    /\ session["c1"] = NoSession
    /\ loggedOut["c1"] = "admin"

\* a Bus id the store handed out whose document is gone
Deleted(i) == i \in IssuedIds /\ \A b \in List : b.id # i

Admitted(s) == s.userId # 0 /\ s.role = "admin"

\* C3: Create issued with an admin session and a body that lacks one or more of
\* the six fields is answered 400, and List() returns the same collection
\* before and after.
C3_MissingFieldGets400 ==
    [][\A c \in Clients, body \in Bodies :
          (/\ MutationBy(c) /\ ev'.op = "create"
           /\ Admitted(session[c])
           /\ \E f \in Fields : body[f] = Undef
           /\ CreateBegin(c, body))
             => ev'.status = 400 /\ List' = List /\ inflight' = inflight]_vars

\* C6 as written: a Create answered 201 leaves in List() a new record whose six
\* fields equal the submitted values and whose id no stored record had; an
\* Update answered 200 whose body supplied all six fields leaves exactly one
\* record with that id, its six fields equal to the submitted values, and every
\* other record unchanged.
C6_FieldsEqualSubmitted ==
    [][\A k \in Slots :
        LET q == inflight[k] IN
        /\ (Resumed(k) /\ q.op = "create" /\ ev'.status = 201) =>
              \E b \in List' :
                 /\ b.f = q.body
                 /\ \A o \in List : o.id # b.id
                 /\ List' = List \cup {b}
        /\ (Resumed(k) /\ q.op = "update" /\ ev'.status = 200
               /\ \A f \in Fields : q.body[f] # Undef) =>
              /\ Cardinality({b \in List' : b.id = q.id}) = 1
              /\ \A b \in List' : b.id = q.id => b.f = q.body
              /\ {b \in List' : b.id # q.id} = {b \in List : b.id # q.id}]_vars

\* C6 amended: the same, with every field equal to the submitted value cast to
\* the type the schema declares for it (seats to a number, the others to
\* strings): a value already of that type is stored as submitted.
C6_FieldsEqualSubmittedCast ==
    [][\A k \in Slots :
        LET q == inflight[k]
            want == [f \in Fields |->
                        IF FieldType(f) = "Number" /\ q.body[f].t = "str"
                        THEN Num(ParseNumber(q.body[f].s))
                        ELSE IF FieldType(f) = "String" /\ q.body[f].t = "num"
                        THEN Str(ToString(q.body[f].n))
                        ELSE q.body[f]]
        IN
        /\ (Resumed(k) /\ q.op = "create" /\ ev'.status = 201) =>
              \E b \in List' :
                 /\ b.f = want
                 /\ \A o \in List : o.id # b.id
                 /\ List' = List \cup {b}
        /\ (Resumed(k) /\ q.op = "update" /\ ev'.status = 200
               /\ \A f \in Fields : q.body[f] # Undef) =>
              /\ Cardinality({b \in List' : b.id = q.id}) = 1
              /\ \A b \in List' : b.id = q.id => b.f = want
              /\ {b \in List' : b.id # q.id} = {b \in List : b.id # q.id}]_vars

C6_Witness ==
    /\ ev.op = "update" /\ ev.status = 200
    /\ Cardinality(buses) = 2
    /\ \E b \in buses : b.id = ev.id /\ b.f["seats"] = Num(40) /\ b.f["busNumber"] = Str("12")

\* C7 as written: a Delete answered 200 removes exactly the record with that id;
\* from then on the id stays absent, every Update or Delete of it by an admin
\* session is answered 404 and changes nothing.
C7_DeletedIdGets404 ==
    [][/\ \A k \in Slots :
            (Resumed(k) /\ inflight[k].op = "delete" /\ ev'.status = 200) =>
               /\ \E b \in List : b.id = inflight[k].id
               /\ List' = {b \in List : b.id # inflight[k].id}
       /\ \A i \in IssuedIds :
            Deleted(i) =>
               /\ \A b \in List' : b.id # i
               /\ \A k \in Slots :
                    (Resumed(k) /\ inflight[k].op \in {"update", "delete"}
                        /\ inflight[k].id = i)
                       => ev'.status = 404 /\ buses' = buses
               /\ \A c \in Clients :
                    (MutationBy(c) /\ ev'.op \in {"update", "delete"} /\ ev'.id = i
                        /\ Admitted(session[c]))
                       => ev'.status = 0 /\ buses' = buses]_vars

\* C7 amended: the same, except that an Update of the deleted id whose body
\* fails the schema's casting or validation is answered 500 instead of 404;
\* it changes nothing either.
C7_DeletedIdGets404Or500 ==
    [][/\ \A k \in Slots :
            (Resumed(k) /\ inflight[k].op = "delete" /\ ev'.status = 200) =>
               /\ \E b \in List : b.id = inflight[k].id
               /\ List' = {b \in List : b.id # inflight[k].id}
       /\ \A i \in IssuedIds :
            Deleted(i) =>
               /\ \A b \in List' : b.id # i
               /\ \A k \in Slots :
                    (Resumed(k) /\ inflight[k].op \in {"update", "delete"}
                        /\ inflight[k].id = i)
                       => ev'.status = 404 /\ buses' = buses
               /\ \A c \in Clients :
                    (MutationBy(c) /\ ev'.op \in {"update", "delete"} /\ ev'.id = i
                        /\ Admitted(session[c]))
                       => /\ buses' = buses
                          /\ ev'.status \in {0, 500}
                          /\ ev'.status = 500 =>
                                /\ ev'.op = "update"
                                /\ \E body \in Bodies, om \in BOOLEAN :
                                      /\ UpdateBegin(c, i, body, om)
                                      /\ \E f \in Fields :
                                            \/ body[f] = Undef
                                            \/ body[f] = Str("")
                                            \/ f = "seats" /\ body[f] = Str("abc")]_vars

C7_Witness ==
    /\ ev.op = "update" /\ ev.status = 404
    /\ Deleted(ev.id)
    /\ buses # {}

UsersNamed(us, u) == {i \in 1..Len(us) : us[i].username = u}

\* the 401 text of each program
BadLoginText == IF app = "server.js" THEN "Vale kasutajanimi voi parool"
                ELSE "Invalid username or password"

C9_UniqueUsername ==
    \A u \in Usernames :
       /\ Cardinality(UsersNamed(users, u)) <= 1
       /\ regOk[u] <= 1

C9_Witness ==
    /\ ev.op = "register" /\ ev.status = 500 /\ ev.username = "carol"
    /\ regOk["carol"] = 1

RolesOk ==
    /\ \A i \in 1..Len(users) : users[i].role \in RoleEnum
    /\ \A c \in Clients : session[c] = NoSession \/ session[c].role \in RoleEnum

\* the step answers a Register request for username u
RegisterAnswered(u) == ev'.op = "register" /\ ev'.status # 0 /\ ev'.username = u

\* the step issues a Register for a username not yet stored, with a string
\* password
NewRegister == Issued /\ ev'.op = "register" /\ UsersNamed(users, ev'.username) = {}
                 /\ \E c \in Clients, pw \in Passwords :
                       pw.t = "str" /\ RegisterFindOne(c, ev'.username, pw, ev'.role)

\* C8 as written: a Register for a new username whose role is absent or is not
\* "user"/"admin" goes on to store a User with role "user", and the session it
\* sets carries that role; every stored role and every session role is "user"
\* or "admin".
C8_BadRoleDefaultsToUser ==
    [][/\ (NewRegister /\ (ev'.role = Undef \/ ev'.role.s \notin RoleEnum))
             => ev'.status = 0
       /\ \A k \in Slots :
             (Resumed(k) /\ inflight[k].op = "register" /\ ev'.status = 201
                 /\ (inflight[k].role = Undef \/ inflight[k].role.s \notin RoleEnum))
                => /\ Len(users') = Len(users) + 1
                   /\ users'[Len(users')].role = "user"
                   /\ session'[inflight[k].client].role = "user"
       /\ RolesOk']_vars

\* a role the program takes as absent: no role key, and for server.js also ''
RoleAbsent(r) == r = Undef \/ (app = "server.js" /\ r = Str(""))

\* C8 amended: when the role is absent (for server.js: absent or the empty
\* string) the User is stored with role "user" and the session carries it; when
\* a role is given that is not "user"/"admin" the request is answered 500 and
\* neither a User nor a session is written; every stored role and every session
\* role is "user" or "admin".
C8_AbsentRoleDefaultsToUser ==
    [][/\ (NewRegister /\ (ev'.role = Undef \/ ev'.role.s \notin RoleEnum))
             => IF RoleAbsent(ev'.role)
                THEN ev'.status = 0
                ELSE ev'.status = 500 /\ users' = users /\ session' = session
                        /\ inflight' = inflight
       /\ \A k \in Slots :
             (Resumed(k) /\ inflight[k].op = "register" /\ ev'.status = 201
                 /\ (inflight[k].role = Undef \/ inflight[k].role.s \notin RoleEnum))
                => /\ Len(users') = Len(users) + 1
                   /\ users'[Len(users')].role = "user"
                   /\ session'[inflight[k].client].role = "user"
       /\ RolesOk']_vars

C8_Witness ==
    /\ ev.op = "register" /\ ev.status = 201 /\ ev.role = Undef
    /\ users[Len(users)].role = "user"
    /\ session[ev.client] = [userId |-> Len(users), role |-> "user"]

\* C4 as written: of the Register requests for one username, issued one after
\* the other, the first is answered 201 and every later one 400, and the User
\* collection then holds exactly one User with that username.
C4_FirstRegisterWins ==
    [][\A u \in Usernames :
          RegisterAnswered(u) =>
             /\ ev'.status = IF regSeen[u] THEN 400 ELSE 201
             /\ Cardinality(UsersNamed(users', u)) = 1
             /\ \A i \in 1..Len(users) : users'[i] = users[i]]_vars

\* C4 amended: of the Register requests for one username, issued one after the
\* other, at most one is answered 201: the first that carries a string password
\* and a role that is absent or "user"/"admin".  The requests before it are
\* answered 500 and store nothing, every later one is answered 400.  After the
\* 201 the collection holds exactly one User with that username, with the hash
\* of that request's password and its role ("user" when absent); no stored User
\* is changed afterwards.
C4_OneRegisterWins ==
    [][\A u \in Usernames :
          RegisterAnswered(u) =>
             /\ regOk[u] > 0 => ev'.status = 400 /\ users' = users
             /\ regOk[u] = 0 => ev'.status \in {201, 500}
             /\ (ev'.status = 500 /\ Issued) =>
                   /\ users' = users
                   /\ \E c \in Clients, pw \in Passwords :
                         /\ RegisterFindOne(c, u, pw, ev'.role)
                         /\ pw = Undef \/ ~(RoleAbsent(ev'.role) \/ ev'.role.s \in RoleEnum)
             /\ ev'.status = 201 =>
                   \E k \in Slots :
                      /\ Resumed(k)
                      /\ users' = Append(users,
                            [username |-> u,
                             password |-> [alg |-> "bcrypt", cost |-> 10,
                                           of |-> inflight[k].password.s],
                             role |-> IF RoleAbsent(ev'.role) THEN "user" ELSE ev'.role.s])
             /\ Cardinality(UsersNamed(users', u)) = regOk'[u]
             /\ regOk'[u] <= 1
             /\ \A i \in 1..Len(users) : users'[i] = users[i]]_vars

C4_Witness ==
    /\ ev.op = "register" /\ ev.status = 400
    /\ regOk[ev.username] = 1
    /\ Cardinality(UsersNamed(users, ev.username)) = 1

====
